---- MODULE Spec2Model ----
(***************************************************************************)
(* Model of paiwan_translation_api.py: the two translators                 *)
(* (PaiwanToChineseTranslator, ChineseToPaiwanTranslator), their           *)
(* vocabulary dictionaries, the fuzzy scan, the context-search fallback    *)
(* with its content extractor, and the two FastAPI translate endpoints.    *)
(*                                                                         *)
(* A Python str is a sequence of one-character strings.  The characters    *)
(* that the code tests for are named:                                      *)
(*   "xu"                        the character of the '[虛]' marker        *)
(*   "pai" "wan" "yu" "colon"    the 4 characters of the label '排灣語：'  *)
(*   "zhong" "wen" "colon"       the 3 characters of the label '中文：'    *)
(*   "nl"                        the line break                            *)
(*                                                                         *)
(* The two data files (data/unique_data.json, data/paiwan_words.json) are  *)
(* taken to hold the same word list: each loader reads word_list.          *)
(***************************************************************************)
EXTENDS Integers, Sequences, FiniteSets, TLC

VARIABLES
    pc,                            \* "boot" before startup_event, then "serving"
    word_list,                     \* what json.load gives for the data files
    paiwan_to_chinese_translator,  \* vocab_dict['paiwan_to_chinese'] of the global
    chinese_to_paiwan_translator,  \* vocab_dict['chinese_to_paiwan'] of the global
    request,                       \* the last request handled by an endpoint
    response,                      \* what the endpoint gave its caller
    call,                          \* what the translate call of that request did
    query,                         \* argument of _extract_translation_from_content
    content,                       \* argument of _extract_translation_from_content
    extracted                      \* the extractor that ran and what it returned

vars == <<pc, word_list, paiwan_to_chinese_translator, chinese_to_paiwan_translator,
          request, response, call, query, content, extracted>>

(***************************************************************************)
(* Bounds of the model.                                                    *)
(***************************************************************************)
MaxEntries == 3    \* longest word list read at startup
MaxLines == 3      \* most lines in a content handed to the extractors

(***************************************************************************)
(* Python str operations.                                                  *)
(***************************************************************************)
IsSpace(ch) == ch \in {" ", "nl"}

RECURSIVE lstrip(_)
lstrip(s) == IF s # <<>> /\ IsSpace(Head(s)) THEN lstrip(Tail(s)) ELSE s

RECURSIVE rstrip(_)
rstrip(s) ==
    IF s # <<>> /\ IsSpace(s[Len(s)]) THEN rstrip(SubSeq(s, 1, Len(s) - 1)) ELSE s

strip(s) == rstrip(lstrip(s))

LowerChar(ch) ==
    CASE ch = "A" -> "a"
      [] ch = "B" -> "b"
      [] ch = "C" -> "c"
      [] OTHER -> ch

lower(s) == [i \in 1..Len(s) |-> LowerChar(s[i])]

\* s[n:]
SliceFrom(s, n) == IF n >= Len(s) THEN <<>> ELSE SubSeq(s, n + 1, Len(s))

startswith(s, prefix) ==
    /\ Len(prefix) <= Len(s)
    /\ SubSeq(s, 1, Len(prefix)) = prefix

\* sub in s
In(sub, s) ==
    \E i \in 0..(Len(s) - Len(sub)) : SubSeq(s, i + 1, i + Len(sub)) = sub

\* s.split('\n')
RECURSIVE SplitFrom(_, _, _)
SplitFrom(s, i, cur) ==
    IF i > Len(s) THEN <<cur>>
    ELSE IF s[i] = "nl" THEN <<cur>> \o SplitFrom(s, i + 1, <<>>)
    ELSE SplitFrom(s, i + 1, Append(cur, s[i]))

split(s) == SplitFrom(s, 1, <<>>)

\* sep.join(parts)
RECURSIVE join(_, _)
join(sep, parts) ==
    IF parts = <<>> THEN <<>>
    ELSE IF Len(parts) = 1 THEN parts[1]
    ELSE parts[1] \o sep \o join(sep, Tail(parts))

CommaSpace == <<",", " ">>

(***************************************************************************)
(* The vocabulary dictionaries.  A dict keeps its keys in insertion order, *)
(* so it is a sequence of [word, translations] items without repeated      *)
(* words.                                                                  *)
(***************************************************************************)
Keys(d) == {d[i].word : i \in 1..Len(d)}

Lookup(d, w) == (CHOOSE i \in 1..Len(d) : d[i].word = w)

Get(d, w) == d[Lookup(d, w)].translations

InSeq(x, s) == \E i \in 1..Len(s) : s[i] = x

\* the two spellings of the marker that the loaders skip
SentinelClosedOnly(s) == s = <<"[", "xu", "]">>

IsSentinel(s) == s = <<"[", "xu", "]">> \/ s = <<"[", "xu">>

\* A field of an entry of the JSON list: kind "str" with its text, "missing"
\* (no such key) or "nonstr" (a number, null, a list ...).
Str(s) == [kind |-> "str", text |-> s]
Missing == [kind |-> "missing", text |-> <<>>]
NonStr == [kind |-> "nonstr", text |-> <<>>]

\* entry.get(k, "").strip() raises AttributeError when entry is no dict or
\* the value has no strip().
Raises(entry) ==
    \/ ~entry.isdict
    \/ entry.paiwan.kind = "nonstr"
    \/ entry.chinese.kind = "nonstr"

\* entry.get(k, "").strip() of a field that does not raise
Field(f) == IF f.kind = "missing" THEN <<>> ELSE strip(f.text)

\* dict[key] = [] if absent, then append value unless present
AddTo(d, key, value) ==
    IF key \in Keys(d)
    THEN [d EXCEPT ![Lookup(d, key)].translations =
              IF InSeq(value, @) THEN @ ELSE Append(@, value)]
    ELSE Append(d, [word |-> key, translations |-> <<value>>])

\* One pass of the loader's for loop from entry i on.  p2c selects which
\* loader: key paiwan / value chinese, or key chinese / value paiwan.  An
\* exception leaves the loop and the except clause returns what was built.
RECURSIVE BuildLoop(_, _, _, _)
BuildLoop(entries, i, d, p2c) ==
    IF i > Len(entries) THEN d
    ELSE IF Raises(entries[i]) THEN d
    ELSE LET paiwan_word == Field(entries[i].paiwan)
             chinese_meaning == Field(entries[i].chinese)
         IN  IF paiwan_word = <<>> \/ chinese_meaning = <<>>
             THEN BuildLoop(entries, i + 1, d, p2c)
             ELSE IF IsSentinel(chinese_meaning)
             THEN BuildLoop(entries, i + 1, d, p2c)
             ELSE BuildLoop(entries, i + 1,
                            IF p2c THEN AddTo(d, paiwan_word, chinese_meaning)
                                   ELSE AddTo(d, chinese_meaning, paiwan_word),
                            p2c)

\* file is [readable, entries]: open/json.load failing is caught as well
build_vocabulary_dict_p2c(file) ==
    IF file.readable THEN BuildLoop(file.entries, 1, <<>>, TRUE) ELSE <<>>

build_vocabulary_dict_c2p(file) ==
    IF file.readable THEN BuildLoop(file.entries, 1, <<>>, FALSE) ELSE <<>>

(***************************************************************************)
(* fuzz.ratio: 0 for an empty argument, else 100 * 2 * M / T rounded to    *)
(* the nearest integer (Python's round: halves go to the even neighbour),  *)
(* T the summed lengths and M the characters matched, which for the       *)
(* Levenshtein ratio is the length of a longest common subsequence.        *)
(***************************************************************************)
Max(a, b) == IF a >= b THEN a ELSE b

RECURSIVE LcsLen(_, _)
LcsLen(a, b) ==
    IF a = <<>> \/ b = <<>> THEN 0
    ELSE IF Head(a) = Head(b) THEN 1 + LcsLen(Tail(a), Tail(b))
    ELSE Max(LcsLen(Tail(a), b), LcsLen(a, Tail(b)))

\* round(n / d) for n >= 0, d > 0
RoundDiv(n, d) ==
    LET q == n \div d
        r == n % d
    IN  IF 2 * r < d THEN q
        ELSE IF 2 * r > d THEN q + 1
        ELSE IF q % 2 = 0 THEN q ELSE q + 1

ratio(s1, s2) ==
    IF s1 = s2 THEN 100
    ELSE IF s1 = <<>> \/ s2 = <<>> THEN 0
    ELSE RoundDiv(200 * LcsLen(s1, s2), Len(s1) + Len(s2))

FuzzyThreshold == 80

\* similarity > 80 and word != text
IsCandidate(word, text) ==
    /\ ratio(lower(text), lower(word)) > FuzzyThreshold
    /\ word # text

(***************************************************************************)
(* The content extractors.                                                 *)
(***************************************************************************)
PaiwanLabel == <<"pai", "wan", "yu", "colon">>
ChineseLabel == <<"zhong", "wen", "colon">>
PaiwanLabelLen == 4
ChineseLabelLen == 3

\* the paiwan-to-chinese loop below, giving up at the first line that matches
\* the query
RECURSIVE ExtractFirstMatchOnlyP2C(_, _, _)
ExtractFirstMatchOnlyP2C(q, lines, i) ==
    IF i > Len(lines) THEN <<>>
    ELSE IF startswith(lines[i], PaiwanLabel) /\ In(q, lines[i])
         THEN IF i - 1 >= 1 /\ startswith(lines[i - 1], ChineseLabel)
              THEN strip(SliceFrom(lines[i - 1], ChineseLabelLen))
              ELSE <<>>
         ELSE ExtractFirstMatchOnlyP2C(q, lines, i + 1)

\* the paiwan-to-chinese loop below, looking at the line after the match
RECURSIVE ExtractNextLineP2C(_, _, _)
ExtractNextLineP2C(q, lines, i) ==
    IF i > Len(lines) THEN <<>>
    ELSE IF /\ startswith(lines[i], PaiwanLabel) /\ In(q, lines[i])
            /\ i + 1 <= Len(lines) /\ startswith(lines[i + 1], ChineseLabel)
         THEN strip(SliceFrom(lines[i + 1], ChineseLabelLen))
         ELSE ExtractNextLineP2C(q, lines, i + 1)

\* PaiwanToChineseTranslator._extract_translation_from_content: the for loop
\* from line i on (i counts from 1 here, from 0 in the code)
RECURSIVE ExtractLoopP2C(_, _, _)
ExtractLoopP2C(q, lines, i) ==
    IF i > Len(lines) THEN <<>>
    ELSE IF /\ startswith(lines[i], PaiwanLabel) /\ In(q, lines[i])
            /\ i - 1 >= 1 /\ startswith(lines[i - 1], ChineseLabel)
         THEN strip(SliceFrom(lines[i - 1], ChineseLabelLen))
         ELSE ExtractLoopP2C(q, lines, i + 1)

extract_translation_from_content_p2c(q, c) == ExtractLoopP2C(q, split(c), 1)

\* ChineseToPaiwanTranslator._extract_translation_from_content
RECURSIVE ExtractLoopC2P(_, _, _)
ExtractLoopC2P(q, lines, i) ==
    IF i > Len(lines) THEN <<>>
    ELSE IF /\ startswith(lines[i], ChineseLabel) /\ In(q, lines[i])
            /\ i + 1 <= Len(lines) /\ startswith(lines[i + 1], PaiwanLabel)
         THEN strip(SliceFrom(lines[i + 1], PaiwanLabelLen))
         ELSE ExtractLoopC2P(q, lines, i + 1)

extract_translation_from_content_c2p(q, c) == ExtractLoopC2P(q, split(c), 1)

(***************************************************************************)
(* translate.                                                              *)
(***************************************************************************)
\* the exact-match step, with only the first stored meaning taken
ExactMatchFirstOnly(d, text) ==
    IF text \in Keys(d) THEN <<Get(d, text)[1]>> ELSE <<>>

\* if text in vocab_dict: all_translations.extend(vocab_dict[text])
ExactMatch(d, text) == IF text \in Keys(d) THEN Get(d, text) ELSE <<>>

\* the fuzzy for loop from item i on; gives all_translations after the loop
RECURSIVE FuzzyLoop(_, _, _, _, _)
FuzzyLoop(d, text, i, best_score, all_translations) ==
    IF i > Len(d) THEN all_translations
    ELSE LET similarity == ratio(lower(text), lower(d[i].word))
         IN  IF similarity > FuzzyThreshold /\ d[i].word # text /\ similarity > best_score
             THEN FuzzyLoop(d, text, i + 1, similarity,
                            all_translations \o d[i].translations)
             ELSE FuzzyLoop(d, text, i + 1, best_score, all_translations)

\* the last loop of translate with the seen test left out
RECURSIVE UniqueKeepAll(_, _, _, _)
UniqueKeepAll(all_translations, i, unique_translations, seen) ==
    IF i > Len(all_translations) THEN unique_translations
    ELSE LET trans_clean == strip(all_translations[i])
         IN  IF trans_clean # <<>>
             THEN UniqueKeepAll(all_translations, i + 1,
                                Append(unique_translations, trans_clean),
                                seen \cup {trans_clean})
             ELSE UniqueKeepAll(all_translations, i + 1, unique_translations, seen)

\* the last loop of translate: unique_translations after the loop
RECURSIVE UniqueLoop(_, _, _, _)
UniqueLoop(all_translations, i, unique_translations, seen) ==
    IF i > Len(all_translations) THEN unique_translations
    ELSE LET trans_clean == strip(all_translations[i])
         IN  IF trans_clean # <<>> /\ trans_clean \notin seen
             THEN UniqueLoop(all_translations, i + 1,
                             Append(unique_translations, trans_clean),
                             seen \cup {trans_clean})
             ELSE UniqueLoop(all_translations, i + 1, unique_translations, seen)

\* The outcomes of the two collaborators.  create_ollama_embeddings either
\* gives a vector or raises, and then create_mock_embeddings gives one.
\* qdrant.search_similar either raises or gives a list of hits, of which
\* translate reads results[0]['content'] only.
Raised == [raised |-> TRUE, results |-> <<>>]
Hits(results) == [raised |-> FALSE, results |-> results]

NotSearched == [raised |-> FALSE, results |-> <<>>]

\* What a translate call did: raised, the value returned, all_translations
\* as it stood before the last loop, whether the context search ran, which
\* query_vector it was given and what it answered.  embed is whether
\* create_ollama_embeddings succeeds, extraction is what
\* _extract_translation_from_content gives for the top hit.
Translate(d, text, embed, search, extraction) ==
    LET dict_translations == FuzzyLoop(d, text, 1, 0, ExactMatch(d, text))
        consulted == dict_translations = <<>>
        all_translations ==
            IF consulted /\ ~search.raised /\ search.results # <<>> /\ extraction # <<>>
            THEN <<extraction>>
            ELSE dict_translations
        unique_translations == UniqueLoop(all_translations, 1, <<>>, {})
        query_vector == IF ~consulted THEN "none" ELSE IF embed THEN "ollama" ELSE "mock"
    IN  IF consulted /\ search.raised
        THEN [invoked |-> TRUE, raised |-> TRUE, value |-> <<>>,
              all_translations |-> <<>>, consulted |-> TRUE,
              query_vector |-> query_vector, search |-> search]
        ELSE [invoked |-> TRUE, raised |-> FALSE,
              value |-> IF unique_translations # <<>>
                        THEN join(CommaSpace, unique_translations)
                        ELSE text,
              all_translations |-> all_translations,
              consulted |-> consulted,
              query_vector |-> query_vector,
              search |-> IF consulted THEN search ELSE NotSearched]

TopContent(search) ==
    IF ~search.raised /\ search.results # <<>> THEN search.results[1] ELSE <<>>

\* PaiwanToChineseTranslator.translate
translate_p2c(d, paiwan_text, embed, search) ==
    Translate(d, paiwan_text, embed, search,
              extract_translation_from_content_p2c(paiwan_text, TopContent(search)))

\* ChineseToPaiwanTranslator.translate
translate_c2p(d, chinese_text, embed, search) ==
    Translate(d, chinese_text, embed, search,
              extract_translation_from_content_c2p(chinese_text, TopContent(search)))

(***************************************************************************)
(* The endpoints.  The body of the try block either returns the result or  *)
(* raises; an HTTPException is an Exception, so the except clause turns    *)
(* whatever was raised into HTTPException(500).                            *)
(***************************************************************************)
BadRequest == 400
InternalError == 500

NoCall == [invoked |-> FALSE, raised |-> FALSE, value |-> <<>>,
           all_translations |-> <<>>, consulted |-> FALSE,
           query_vector |-> "none", search |-> NotSearched]

\* status 0 stands for an exception that is no HTTPException
TryBlock(text, tr) ==
    IF strip(text) = <<>> THEN [raised |-> TRUE, status |-> BadRequest, result |-> <<>>]
    ELSE IF tr.raised THEN [raised |-> TRUE, status |-> 0, result |-> <<>>]
    ELSE [raised |-> FALSE, status |-> 200, result |-> tr.value]

ExceptClause(outcome) ==
    IF outcome.raised
    THEN [status |-> InternalError, result |-> <<>>]
    ELSE [status |-> outcome.status, result |-> outcome.result]

(***************************************************************************)
(* The inputs.                                                             *)
(***************************************************************************)
abc == <<"a", "b", "c">>
ab == <<"a", "b">>
abcc == <<"a", "b", "c", "c">>
Abc == <<"A", "b", "c">>
ABC == <<"A", "B", "C">>

Entry(p, c) == [isdict |-> TRUE, paiwan |-> p, chinese |-> c]

Entries == {
    Entry(Str(<<" ">> \o abc), Str(ab \o <<" ">>)),
    Entry(Str(Abc), Str(abcc)),
    Entry(Str(abcc), Str(Abc)),
    Entry(Str(ABC), Str(ab)),
    Entry(Str(abc), Str(abcc)),
    Entry(Str(abc), Str(<<"[", "xu", "]">>)),
    Entry(Str(abcc), Str(<<" ", "[", "xu">>)),
    Entry(Missing, Str(ab)),
    Entry(Str(abc), NonStr),
    [isdict |-> FALSE, paiwan |-> Missing, chinese |-> Missing] }

WordLists ==
    {[readable |-> FALSE, entries |-> <<>>]} \cup
    {[readable |-> TRUE, entries |-> e] :
        e \in UNION {[1..n -> Entries] : n \in 0..MaxEntries}}

Texts == {abc, <<>>, <<" ">>}

PairedContent == ChineseLabel \o <<" ">> \o abcc \o <<"nl">> \o PaiwanLabel \o abc

Searches == {Raised, Hits(<<>>), Hits(<<PairedContent>>), Hits(<<abc>>)}

Lines == {
    ChineseLabel \o abcc,
    ChineseLabel \o <<" ">> \o abcc \o <<" ">>,
    ChineseLabel \o ab,
    PaiwanLabel \o abc,
    PaiwanLabel \o ab,
    abc }

Contents ==
    {join(<<"nl">>, ls) : ls \in UNION {[1..n -> Lines] : n \in 1..MaxLines}}

Queries == {abc, abcc}

\* what the two collaborators answer when translate calls them
Outcomes == [embed : BOOLEAN, search : Searches]

NoOutcome == [embed |-> TRUE, search |-> Hits(<<>>)]

\* A request that never reaches the context search (blank text, or a
\* translation found in the dictionary) reads no outcome, so a single one
\* is drawn for it.
OutcomesRead(d, text) ==
    IF strip(text) = <<>> \/ FuzzyLoop(d, text, 1, 0, ExactMatch(d, text)) # <<>>
    THEN {NoOutcome}
    ELSE Outcomes

NotExtracted == [by |-> "none", value |-> <<>>]

(***************************************************************************)
(* The service: startup_event, then requests to the two endpoints.         *)
(***************************************************************************)
Init ==
    /\ pc = "boot"
    /\ word_list \in WordLists
    /\ paiwan_to_chinese_translator = <<>>
    /\ chinese_to_paiwan_translator = <<>>
    /\ request = [endpoint |-> "none", text |-> <<>>]
    /\ response = [status |-> 0, result |-> <<>>]
    /\ call = NoCall
    /\ query = <<>>
    /\ content = <<>>
    /\ extracted = NotExtracted

startup_event ==
    /\ pc = "boot"
    /\ pc' = "serving"
    /\ paiwan_to_chinese_translator' = build_vocabulary_dict_p2c(word_list)
    /\ chinese_to_paiwan_translator' = build_vocabulary_dict_c2p(word_list)
    /\ UNCHANGED <<word_list, request, response, call, query, content, extracted>>

translate_paiwan_to_chinese ==
    /\ pc = "serving"
    /\ \E text \in Texts :
       \E outcome \in OutcomesRead(paiwan_to_chinese_translator, text) :
         LET tr == translate_p2c(paiwan_to_chinese_translator, text, outcome.embed, outcome.search)
         IN  /\ request' = [endpoint |-> "paiwan-to-chinese", text |-> text]
             /\ call' = IF strip(text) = <<>> THEN NoCall ELSE tr
             /\ response' = ExceptClause(TryBlock(text, tr))
    /\ UNCHANGED <<pc, word_list, paiwan_to_chinese_translator,
                   chinese_to_paiwan_translator, query, content, extracted>>

translate_chinese_to_paiwan ==
    /\ pc = "serving"
    /\ \E text \in Texts :
       \E outcome \in OutcomesRead(chinese_to_paiwan_translator, text) :
         LET tr == translate_c2p(chinese_to_paiwan_translator, text, outcome.embed, outcome.search)
         IN  /\ request' = [endpoint |-> "chinese-to-paiwan", text |-> text]
             /\ call' = IF strip(text) = <<>> THEN NoCall ELSE tr
             /\ response' = ExceptClause(TryBlock(text, tr))
    /\ UNCHANGED <<pc, word_list, paiwan_to_chinese_translator,
                   chinese_to_paiwan_translator, query, content, extracted>>

Next ==
    \/ startup_event
    \/ translate_paiwan_to_chinese
    \/ translate_chinese_to_paiwan

Spec == Init /\ [][Next]_vars

(***************************************************************************)
(* The extractors on their own: one call of either on a query and content. *)
(***************************************************************************)
InitExtract ==
    /\ pc = "extract"
    /\ word_list = [readable |-> FALSE, entries |-> <<>>]
    /\ paiwan_to_chinese_translator = <<>>
    /\ chinese_to_paiwan_translator = <<>>
    /\ request = [endpoint |-> "none", text |-> <<>>]
    /\ response = [status |-> 0, result |-> <<>>]
    /\ call = NoCall
    /\ query \in Queries
    /\ content \in Contents
    /\ extracted = NotExtracted

ExtractP2C ==
    /\ pc = "extract"
    /\ extracted' = [by |-> "p2c",
                     value |-> extract_translation_from_content_p2c(query, content)]
    /\ UNCHANGED <<pc, word_list, paiwan_to_chinese_translator,
                   chinese_to_paiwan_translator, request, response, call,
                   query, content>>

ExtractC2P ==
    /\ pc = "extract"
    /\ extracted' = [by |-> "c2p",
                     value |-> extract_translation_from_content_c2p(query, content)]
    /\ UNCHANGED <<pc, word_list, paiwan_to_chinese_translator,
                   chinese_to_paiwan_translator, request, response, call,
                   query, content>>

NextExtract == ExtractP2C \/ ExtractC2P

SpecExtract == InitExtract /\ [][NextExtract]_vars

(***************************************************************************)
(* Vocabulary used by the properties.                                      *)
(***************************************************************************)
Served == request.endpoint # "none"

P2CServed == request.endpoint = "paiwan-to-chinese"

\* the dictionary of the translator that served the last request
Dict ==
    IF P2CServed THEN paiwan_to_chinese_translator ELSE chinese_to_paiwan_translator

\* the returned string read back as its ', '-separated items
RECURSIVE ItemsFrom(_, _, _)
ItemsFrom(s, i, cur) ==
    IF i > Len(s) THEN <<cur>>
    ELSE IF s[i] = "," /\ i < Len(s) /\ s[i + 1] = " "
         THEN <<cur>> \o ItemsFrom(s, i + 2, <<>>)
         ELSE ItemsFrom(s, i + 1, Append(cur, s[i]))

Items(s) == ItemsFrom(s, 1, <<>>)

Count(x, seq) == Cardinality({i \in 1..Len(seq) : seq[i] = x})

Elems(seq) == {seq[i] : i \in 1..Len(seq)}

Score(d, i, text) == ratio(lower(text), lower(d[i].word))

Candidates(d, text) == {i \in 1..Len(d) : IsCandidate(d[i].word, text)}

\* the candidates whose score no candidate exceeds
BestCandidates(d, text) ==
    {i \in Candidates(d, text) :
        \A j \in Candidates(d, text) : Score(d, j, text) <= Score(d, i, text)}

ExactMeanings(d, text) ==
    IF text \in Keys(d) THEN Elems(Get(d, text)) ELSE {}

\* the translate call of the last request returned a string
Returned == call.invoked /\ ~call.raised

(***************************************************************************)
(* C1  Tie handling: when two distinct keys, both different from the       *)
(* query, have the same score above 80 and no key of the index scores      *)
(* higher, every meaning of both keys is in the returned string exactly    *)
(* once.  The code extends only on similarity > best_score, so the key     *)
(* scanned second is dropped.                                              *)
(***************************************************************************)
C1_TiedKeysBothReturned ==
    Returned =>
        \A i, j \in Candidates(Dict, request.text) :
            ( /\ i # j
              /\ Score(Dict, i, request.text) = Score(Dict, j, request.text)
              /\ \A k \in 1..Len(Dict) :
                    Score(Dict, k, request.text) <= Score(Dict, i, request.text) )
            => \A m \in Elems(Dict[i].translations) \cup Elems(Dict[j].translations) :
                    Count(m, Items(response.result)) = 1

(***************************************************************************)
(* C2  Identity fallback with a failed fallback path: for a query that is  *)
(* no key and has no fuzzy candidate, when the search backend raises, or   *)
(* the embedding generator fails and the search gives no hit, translate    *)
(* raises nothing and returns the input unchanged.  The call of            *)
(* search_similar is outside any try, so its exception leaves translate.   *)
(***************************************************************************)
FallbackFailed ==
    \/ call.search.raised
    \/ call.query_vector = "mock" /\ call.search.results = <<>>

C2_FailedFallbackGivesIdentity ==
    ( /\ call.invoked
      /\ request.text \notin Keys(Dict)
      /\ Candidates(Dict, request.text) = {}
      /\ FallbackFailed )
    => ~call.raised /\ call.value = request.text

(***************************************************************************)
(* C4  Empty input rejection: a request whose text is empty or only        *)
(* whitespace gets the status-400 outcome and translate is not invoked.    *)
(* The HTTPException(400) is raised inside the try block whose             *)
(* except Exception clause re-raises it as status 500.                     *)
(***************************************************************************)
C4_BlankTextGives400 ==
    (Served /\ strip(request.text) = <<>>) =>
        response.status = BadRequest /\ ~call.invoked

(***************************************************************************)
(* C5  Skip-and-continue at load time: the built index equals the index    *)
(* built from the same list with the malformed entries (not a record, or   *)
(* a paiwan/chinese field missing or not a string) removed.  The code      *)
(* leaves the loop at the first entry on which .get or .strip raises.      *)
(***************************************************************************)
WellFormed(entry) ==
    entry.isdict /\ entry.paiwan.kind = "str" /\ entry.chinese.kind = "str"

WithoutMalformed(file) == [file EXCEPT !.entries = SelectSeq(@, WellFormed)]

C5_MalformedEntriesSkipped ==
    pc = "serving" =>
        /\ paiwan_to_chinese_translator =
               build_vocabulary_dict_p2c(WithoutMalformed(word_list))
        /\ chinese_to_paiwan_translator =
               build_vocabulary_dict_c2p(WithoutMalformed(word_list))

(***************************************************************************)
(* C6  Exact-match precedence: when the query is verbatim a key of the     *)
(* index, translate returns a string that holds every meaning stored for   *)
(* that key, whatever the other keys score, and the context search is not  *)
(* consulted.                                                              *)
(***************************************************************************)
C6_ExactMatchPrecedence ==
    (call.invoked /\ request.text \in Keys(Dict)) =>
        /\ ~call.raised
        /\ ~call.consulted
        /\ response.result = call.value
        /\ \A m \in ExactMeanings(Dict, request.text) :
              In(m, response.result) /\ Count(m, Items(response.result)) = 1

\* an exact key with two meanings, next to another key that scores 100
C6_Witness ==
    /\ call.invoked
    /\ request.text \in Keys(Dict)
    /\ Cardinality(ExactMeanings(Dict, request.text)) >= 2
    /\ \E i \in Candidates(Dict, request.text) : Score(Dict, i, request.text) = 100
    /\ response.status = 200

(***************************************************************************)
(* C7  Deduplication preserves first-seen order: when any translation was  *)
(* collected, the returned string is the collected sequence (the exact     *)
(* key's meanings first, then meanings of fuzzy candidates in scan order,  *)
(* or else the one fallback extraction), each entry trimmed, empty entries *)
(* dropped, only the first occurrence of a value kept, joined with ', '.   *)
(***************************************************************************)
Trimmed(seq) == [i \in 1..Len(seq) |-> strip(seq[i])]

\* positions of seq holding the first occurrence of a non-empty value
FirstSeen(seq) ==
    {i \in 1..Len(seq) : seq[i] # <<>> /\ \A j \in 1..(i - 1) : seq[j] # seq[i]}

\* the elements of seq at the positions of set P, in increasing position
RECURSIVE AtPositions(_, _)
AtPositions(seq, P) ==
    IF P = {} THEN <<>>
    ELSE LET i == CHOOSE x \in P : \A y \in P : x <= y
         IN  <<seq[i]>> \o AtPositions(seq, P \ {i})

\* the translations of the dictionary items at the positions of P, in order
RECURSIVE MeaningsOf(_, _)
MeaningsOf(d, P) ==
    IF P = {} THEN <<>>
    ELSE LET i == CHOOSE x \in P : \A y \in P : x <= y
         IN  d[i].translations \o MeaningsOf(d, P \ {i})

ExactPart == IF request.text \in Keys(Dict) THEN Get(Dict, request.text) ELSE <<>>

C7_DedupFirstSeenOrder ==
    (Returned /\ call.all_translations # <<>>) =>
        /\ Items(response.result) =
               AtPositions(Trimmed(call.all_translations),
                           FirstSeen(Trimmed(call.all_translations)))
        /\ \/ /\ ~call.consulted
              /\ \E P \in SUBSET Candidates(Dict, request.text) :
                    call.all_translations = ExactPart \o MeaningsOf(Dict, P)
           \/ /\ call.consulted
              /\ Len(call.all_translations) = 1
              /\ call.search.results # <<>>

\* a value collected twice, not next to each other, and two items returned
C7_Witness ==
    /\ Returned
    /\ Len(call.all_translations) = 3
    /\ call.all_translations[1] = call.all_translations[3]
    /\ call.all_translations[1] # call.all_translations[2]
    /\ Len(Items(response.result)) = 2
    /\ response.status = 200

(***************************************************************************)
(* C8  Sentinel exclusion: a pair whose chinese field trims to '[虛]' or   *)
(* '[虛' puts nothing into either index: the marker is no meaning of the   *)
(* paiwan-to-chinese index and no key of the chinese-to-paiwan index, and  *)
(* no exact or fuzzy lookup in the paiwan-to-chinese index returns it.     *)
(***************************************************************************)
Marker(s) == s \in {<<"[", "xu", "]">>, <<"[", "xu">>}

C8_SentinelExcluded ==
    /\ \A i \in 1..Len(paiwan_to_chinese_translator) :
          \A m \in Elems(paiwan_to_chinese_translator[i].translations) : ~Marker(m)
    /\ \A k \in Keys(chinese_to_paiwan_translator) : ~Marker(k)
    /\ (Returned /\ P2CServed /\ ~call.consulted) =>
          \A m \in Elems(Items(response.result)) : ~Marker(m)

\* the word of a marker pair that the loader reached is looked up
C8_Witness ==
    /\ Returned /\ P2CServed /\ ~call.consulted
    /\ \E i \in 1..Len(word_list.entries) :
          /\ \A j \in 1..i : ~Raises(word_list.entries[j])
          /\ Marker(Field(word_list.entries[i].chinese))
          /\ Field(word_list.entries[i].paiwan) = request.text
          /\ \E j \in 1..Len(word_list.entries) :
                /\ ~Raises(word_list.entries[j])
                /\ Field(word_list.entries[j].chinese) = <<"[", "xu">>

(***************************************************************************)
(* C9  Replace on strict improvement: the meanings the fuzzy step adds     *)
(* come only from the candidates of maximal score; every item of the       *)
(* returned string is a meaning of the exact key or of such a candidate.   *)
(* The code extends all_translations and never replaces it, so a lower     *)
(* scoring candidate scanned earlier stays in the result.                  *)
(***************************************************************************)
C9_OnlyBestCandidates ==
    (Returned /\ ~call.consulted) =>
        \A m \in Elems(Items(response.result)) :
            \/ m \in ExactMeanings(Dict, request.text)
            \/ \E i \in BestCandidates(Dict, request.text) :
                  m \in Elems(Dict[i].translations)

(***************************************************************************)
(* The extractors' properties, over SpecExtract.                           *)
(***************************************************************************)
ContentLines == split(content)

OwnLabel == IF extracted.by = "p2c" THEN PaiwanLabel ELSE ChineseLabel
OtherLabel == IF extracted.by = "p2c" THEN ChineseLabel ELSE PaiwanLabel
Offset == IF extracted.by = "p2c" THEN 0 - 1 ELSE 1

\* line i starts with the query's own label and contains the query
Matches(i) == startswith(ContentLines[i], OwnLabel) /\ In(query, ContentLines[i])

\* the counterpart line of line i exists and carries the counterpart label
HasCounterpart(i) ==
    /\ i + Offset \in 1..Len(ContentLines)
    /\ startswith(ContentLines[i + Offset], OtherLabel)

CounterpartText(i) == strip(SliceFrom(ContentLines[i + Offset], Len(OtherLabel)))

MatchingLines == {i \in 1..Len(ContentLines) : Matches(i)}

FirstOf(S) == CHOOSE i \in S : \A j \in S : i <= j

(***************************************************************************)
(* C3 as stated  Extraction direction asymmetry: for content whose first   *)
(* line is the paiwan line '排灣語：foo' and whose second line is the      *)
(* chinese line '中文：bar', the paiwan-to-chinese extractor with query    *)
(* foo returns bar and the chinese-to-paiwan extractor with query bar      *)
(* returns foo.                                                            *)
(***************************************************************************)
C3_PaiwanLineFirst ==
    ( /\ extracted.by # "none"
      /\ Len(ContentLines) = 2
      /\ startswith(ContentLines[1], PaiwanLabel)
      /\ startswith(ContentLines[2], ChineseLabel) )
    => LET foo == SliceFrom(ContentLines[1], PaiwanLabelLen)
           bar == SliceFrom(ContentLines[2], ChineseLabelLen)
       IN  /\ (extracted.by = "p2c" /\ query = foo) => extracted.value = bar
           /\ (extracted.by = "c2p" /\ query = bar) => extracted.value = foo

(***************************************************************************)
(* C3 as amended  For content whose first line is the chinese line         *)
(* '中文：bar' and whose second line is the paiwan line '排灣語：foo', the *)
(* paiwan-to-chinese extractor with query foo returns bar trimmed and the  *)
(* chinese-to-paiwan extractor with query bar returns foo trimmed.         *)
(***************************************************************************)
C3_ChineseLineFirst ==
    ( /\ extracted.by # "none"
      /\ Len(ContentLines) = 2
      /\ startswith(ContentLines[1], ChineseLabel)
      /\ startswith(ContentLines[2], PaiwanLabel) )
    => LET bar == SliceFrom(ContentLines[1], ChineseLabelLen)
           foo == SliceFrom(ContentLines[2], PaiwanLabelLen)
       IN  /\ (extracted.by = "p2c" /\ query = foo) => extracted.value = strip(bar)
           /\ (extracted.by = "c2p" /\ query = bar) => extracted.value = strip(foo)

\* the paiwan-to-chinese extractor ran on such a pair whose bar is padded
C3_Witness ==
    /\ extracted.by = "p2c"
    /\ Len(ContentLines) = 2
    /\ startswith(ContentLines[1], ChineseLabel)
    /\ startswith(ContentLines[2], PaiwanLabel)
    /\ query = SliceFrom(ContentLines[2], PaiwanLabelLen)
    /\ strip(SliceFrom(ContentLines[1], ChineseLabelLen)) #
           SliceFrom(ContentLines[1], ChineseLabelLen)
    /\ extracted.value = abcc

(***************************************************************************)
(* C10 as stated  The extractor decides on the first matching line only:   *)
(* when the first line that starts with the own label and contains the     *)
(* query has no counterpart line carrying the counterpart label, the       *)
(* result is the empty string.                                             *)
(***************************************************************************)
C10_FirstMatchDecides ==
    ( /\ extracted.by # "none"
      /\ MatchingLines # {}
      /\ ~HasCounterpart(FirstOf(MatchingLines)) )
    => extracted.value = <<>>

(***************************************************************************)
(* C10 as amended  The extractor returns the trimmed text of the           *)
(* counterpart line of the first line that starts with the own label,      *)
(* contains the query and has a counterpart line carrying the counterpart  *)
(* label; matching lines without such a counterpart are passed over, and   *)
(* the result is the empty string when no line qualifies.                  *)
(***************************************************************************)
QualifyingLines == {i \in MatchingLines : HasCounterpart(i)}

C10_FirstQualifyingLineDecides ==
    extracted.by # "none" =>
        extracted.value =
            IF QualifyingLines = {} THEN <<>>
            ELSE CounterpartText(FirstOf(QualifyingLines))

\* the first matching line has no counterpart and a later one has
C10_Witness ==
    /\ extracted.by # "none"
    /\ MatchingLines # {}
    /\ ~HasCounterpart(FirstOf(MatchingLines))
    /\ QualifyingLines # {}
    /\ extracted.value # <<>>

====
